---- MODULE Spec2Model ----
(***************************************************************************)
(* LocallyOptimizedMSAC::EstimateModel of RansacLib/ransac.h as a state    *)
(* machine.  One EstimateModel call is followed from entry to return; the  *)
(* Solver (a template parameter of the class) is an external collaborator  *)
(* whose answers are drawn nondeterministically.                            *)
(*                                                                         *)
(* A Model is represented by its residual vector: the value                *)
(* EvaluateModelOnPoint gives on each of the N data points.  Doubles that  *)
(* are not integers (thresholds, the inlier ratio, probabilities) are      *)
(* exact rationals <<numerator, denominator>>.                             *)
(***************************************************************************)
EXTENDS Integers, Sequences, FiniteSets, TLC

\* ------------------------------------------------------------------ bounds
MaxData == 2
MaxIters == 3
MaxCandidates == 2

\* std::numeric_limits<double>::max(): larger than every score of the model.
DBL_MAX == 1000000

\* ------------------------------------------------------------- arithmetic
Min(a, b) == IF a < b THEN a ELSE b
Max(a, b) == IF a < b THEN b ELSE a

RECURSIVE Pow(_, _)
Pow(b, e) == IF e = 0 THEN 1 ELSE b * Pow(b, e - 1)

\* rationals <<n, d>> with d > 0
RatLess(x, y) == x[1] * y[2] < y[1] * x[2]
RatEq(x, y) == x[1] * y[2] = y[1] * x[2]
RatSub(x, y) == <<x[1] * y[2] - y[1] * x[2], x[2] * y[2]>>
RatOfInt(n) == <<n, 1>>

\* Exact naturals beyond the machine word: 8 little-endian digits, base 10000.
BigOf(n) == [d \in 1..8 |-> IF d = 1 THEN n % 10000
                            ELSE IF d = 2 THEN n \div 10000 ELSE 0]

RECURSIVE BigMulDigits(_, _, _, _)
BigMulDigits(x, k, d, carry) ==
  IF d > 8 THEN <<>>
  ELSE LET v == x[d] * k + carry
       IN <<v % 10000>> \o BigMulDigits(x, k, d + 1, v \div 10000)

BigMul(x, k) == BigMulDigits(x, k, 1, 0)

RECURSIVE BigLeqFrom(_, _, _)
BigLeqFrom(x, y, d) ==
  IF d = 0 THEN TRUE
  ELSE IF x[d] < y[d] THEN TRUE
  ELSE IF x[d] > y[d] THEN FALSE
  ELSE BigLeqFrom(x, y, d - 1)

BigLeq(x, y) == BigLeqFrom(x, y, 8)

RECURSIVE BigPowTimes(_, _, _)
BigPowTimes(c, b, e) == IF e = 0 THEN BigOf(c) ELSE BigMul(BigPowTimes(c, b, e - 1), b)

\* ------------------------------------------------------------------ state
VARIABLES
  pc,                    \* position in EstimateModel / LocalOptimization
  options,               \* const LORansacOptions& options
  solver,                \* const Solver& solver: num_data, sample sizes
  best_model,            \* Model* best_model (the caller's object)
  stats,                 \* RansacStatistics* statistics
  ret,                   \* the value EstimateModel returns
  max_num_iterations,    \* the adaptive cap T
  best_minimal_model,
  best_min_model_score,
  refined_model,         \* LocalOptimization's outputs
  score_refined_model,
  inliers_base,          \* LocalOptimization's locals
  kNonMinSampleSize,
  sample,
  m_non_min,
  thresh,
  r,
  i,
  called,                \* history: which Solver / LO entry points were called
  writes,                \* history: number of assignments to *best_model
  last_recompute,        \* history: iteration at which T was last recomputed
  lo_min_score,          \* history: lowest score ScoreModel gave in this LO
  lsq_log                \* history: LeastSquaresFit calls on m_non_min in this LO step

vars == <<pc, options, solver, best_model, stats, ret, max_num_iterations,
          best_minimal_model, best_min_model_score, refined_model,
          score_refined_model, inliers_base, kNonMinSampleSize, sample,
          m_non_min, thresh, r, i, called, writes, last_recompute,
          lo_min_score, lsq_log>>

lo_vars == <<refined_model, score_refined_model, inliers_base,
             kNonMinSampleSize, sample, m_non_min, thresh, r, i,
             lo_min_score, lsq_log>>

\* ----------------------------------------------------------------- solver
\* Residuals at or above threshold_multiplier_ * squared_inlier_threshold_
\* are outliers under every threshold the code uses, so one value stands
\* for all of them.
MaxResidual(opt) == opt.threshold_multiplier_ * opt.squared_inlier_threshold_

Models(opt, sol) == [0..(sol.num_data - 1) -> 0..MaxResidual(opt)]

\* A default-constructed Model (Model best_minimal_model; Model m_non_min;).
DefaultModel(opt, sol) == [p \in 0..(sol.num_data - 1) |-> MaxResidual(opt)]

EvaluateModelOnPoint(model, p) == model[p]

\* solver.MinimalSolver: any list of 0..MaxCandidates models.
MinimalSolver(opt, sol) ==
  UNION {[1..n -> Models(opt, sol)] : n \in 0..MaxCandidates}

\* solver.NonMinimalSolver: fails, or succeeds with any model.
NonMinimalSolver(opt, sol, smp) ==
  {[ok |-> FALSE, model |-> DefaultModel(opt, sol)]}
    \cup {[ok |-> TRUE, model |-> m] : m \in Models(opt, sol)}

\* solver.LeastSquares: refines the model in place to any model (or not at all).
LeastSquares(opt, sol, inl, model) == Models(opt, sol)

\* ------------------------------------------------------- RansacBase
ResetStatistics(st) ==
  [st EXCEPT !.best_num_inliers = 0,
             !.best_model_score = DBL_MAX,
             !.num_iterations = 0,
             !.inlier_ratio = <<0, 1>>,
             !.inlier_indices = <<>>]

\* ceil(log(eta) / log(1 - ratio^s) + 0.5) is the least n >= 1 with
\* (1 - ratio^s)^(2n-1) <= eta^2; the search stops at cap, beyond which
\* std::min(.., max_iterations) gives max_iterations in any case.
IterationsSuffice(ratio, eta, s, n) ==
  LET D == Pow(ratio[2], s)
      P == D - Pow(ratio[1], s)
  IN BigLeq(BigPowTimes(eta[2] * eta[2], P, 2 * n - 1),
            BigPowTimes(eta[1] * eta[1], D, 2 * n - 1))

NumIters(ratio, eta, s, cap) ==
  IF \E n \in 1..cap : IterationsSuffice(ratio, eta, s, n)
  THEN CHOOSE n \in 1..cap : /\ IterationsSuffice(ratio, eta, s, n)
                             /\ \A k \in 1..(n - 1) : ~IterationsSuffice(ratio, eta, s, k)
  ELSE cap + 1

NumRequiredIterationsNoUpperClamp(inlier_ratio, prob_missing_best_model, sample_size, min_iterations, max_iterations) ==
  IF inlier_ratio[1] <= 0 THEN max_iterations
  ELSE IF inlier_ratio[1] >= inlier_ratio[2] THEN min_iterations
  ELSE Max(min_iterations,
           NumIters(inlier_ratio, prob_missing_best_model, sample_size,
                    max_iterations))

NumRequiredIterations(inlier_ratio, prob_missing_best_model, sample_size, min_iterations, max_iterations) ==
  IF inlier_ratio[1] <= 0 THEN max_iterations
  ELSE IF inlier_ratio[1] >= inlier_ratio[2] THEN min_iterations
  ELSE Max(min_iterations,
           Min(NumIters(inlier_ratio, prob_missing_best_model, sample_size,
                        max_iterations), max_iterations))

\* ------------------------------------------------ LocallyOptimizedMSAC
ComputeScore(squared_error, squared_error_threshold) ==
  Min(squared_error, squared_error_threshold)

RECURSIVE ScoreFrom(_, _, _, _)
ScoreFrom(model, n, thr, p) ==
  IF p >= n THEN 0
  ELSE ComputeScore(EvaluateModelOnPoint(model, p), thr) + ScoreFrom(model, n, thr, p + 1)

ScoreModel(sol, model, squared_inlier_threshold) ==
  ScoreFrom(model, sol.num_data, squared_inlier_threshold, 0)

RECURSIVE InliersFrom(_, _, _, _)
InliersFrom(model, n, thr, p) ==
  IF p >= n THEN <<>>
  ELSE (IF RatLess(RatOfInt(EvaluateModelOnPoint(model, p)), thr) THEN <<p>> ELSE <<>>)
         \o InliersFrom(model, n, thr, p + 1)

GetInliersInclusive(sol, model, squared_inlier_threshold) ==
  LET RECURSIVE F(_)
      F(p) == IF p >= sol.num_data THEN <<>>
              ELSE (IF ~RatLess(squared_inlier_threshold,
                                RatOfInt(EvaluateModelOnPoint(model, p)))
                    THEN <<p>> ELSE <<>>) \o F(p + 1)
  IN F(0)

\* The inliers vector; the returned count is its length.
GetInliers(sol, model, squared_inlier_threshold) ==
  InliersFrom(model, sol.num_data, squared_inlier_threshold, 0)

UpdateBestModelOnTie(score_curr, m_curr, score_best, m_best) ==
  IF score_curr <= score_best
  THEN [score |-> score_curr, model |-> m_curr, wrote |-> TRUE]
  ELSE [score |-> score_best, model |-> m_best, wrote |-> FALSE]

UpdateBestModelAlways(score_curr, m_curr, score_best, m_best) ==
  [score |-> score_curr, model |-> m_curr, wrote |-> TRUE]

UpdateBestModel(score_curr, m_curr, score_best, m_best) ==
  IF score_curr < score_best
  THEN [score |-> score_curr, model |-> m_curr, wrote |-> TRUE]
  ELSE [score |-> score_best, model |-> m_best, wrote |-> FALSE]

RECURSIVE BestFrom(_, _, _, _, _)
BestFrom(sol, models, thr, m, best) ==
  IF m >= Len(models) THEN best
  ELSE LET score == ScoreModel(sol, models[m + 1], thr)
       IN BestFrom(sol, models, thr, m + 1,
                   IF score < best.score THEN [score |-> score, id |-> m] ELSE best)

GetBestEstimatedModelId(sol, models, squared_inlier_threshold) ==
  BestFrom(sol, models, squared_inlier_threshold, 0, [score |-> DBL_MAX, id |-> 0])

\* utils::RandomShuffleAndResize(target_size, rng, &v): every outcome the
\* random generator can give.  With target_size <= |v| the result is the
\* first target_size elements of a permutation of v.  With target_size > |v|
\* the vector is either left with its |v| shuffled elements (truncation
\* only) or grown to target_size with value-initialised (0) elements.
Shuffles(v) ==
  {[k \in 1..Len(v) |-> v[f[k]]] :
     f \in {g \in [1..Len(v) -> 1..Len(v)] :
              \A a, b \in 1..Len(v) : a # b => g[a] # g[b]}}

RandomShuffleAndResize(target_size, v) ==
  IF target_size <= Len(v)
  THEN {SubSeq(q, 1, target_size) : q \in Shuffles(v)}
  ELSE Shuffles(v)
         \cup {q \o [k \in 1..(target_size - Len(v)) |-> 0] : q \in Shuffles(v)}

\* The models *model can hold after LeastSquaresFit(options, thresh, ...).
LeastSquaresFit(opt, thr, sol, model) ==
  LET kLSqSampleSize == opt.min_sample_multiplicator_ * sol.min_sample_size
      inliers == GetInliers(sol, model, thr)
      lsq_data_size == Min(kLSqSampleSize, Len(inliers))
  IN UNION {LeastSquares(opt, sol, data, model) :
              data \in RandomShuffleAndResize(lsq_data_size, inliers)}

\* const int kNonMinSampleSize = std::max(kMinNonMinSampleSize, std::min(...))
NonMinSampleSize(opt, sol, inl_base) ==
  Max(sol.non_minimal_sample_size,
      Min(sol.non_minimal_sample_size * opt.non_min_sample_multiplier_,
          Len(inl_base) \div 2))

\* double thresh = kThreshMult * kSqInThresh
RelaxedThreshold(opt) ==
  RatOfInt(opt.threshold_multiplier_ * opt.squared_inlier_threshold_)

ThreshMultUpdateIntDiv(opt) ==
  RatOfInt(((opt.threshold_multiplier_ - 1) * opt.squared_inlier_threshold_)
             \div (opt.num_lsq_iterations_ - 1))

\* double thresh_mult_update = (kThreshMult - 1.0) * kSqInThresh /
\*                             static_cast<int>(num_lsq_iterations_ - 1)
ThreshMultUpdate(opt) ==
  <<(opt.threshold_multiplier_ - 1) * opt.squared_inlier_threshold_,
    opt.num_lsq_iterations_ - 1>>

SanityCheckFailsNoSign(sol) == sol.min_sample_size > sol.num_data

\* if (kMinSampleSize > kNumData || kMinSampleSize <= 0) return 0;
SanityCheckFails(sol) ==
  sol.min_sample_size > sol.num_data \/ sol.min_sample_size <= 0

InitialMaxIterationsNoMax(opt) == opt.max_num_iterations_

\* uint32_t max_num_iterations = std::max(max_num_iterations_, min_num_iterations_)
InitialMaxIterations(opt) ==
  Max(opt.max_num_iterations_, opt.min_num_iterations_)

LoopContinuesInclusive(st, cap) == st.num_iterations <= cap

\* the for condition: stats.num_iterations < max_num_iterations
LoopContinues(st, cap) == st.num_iterations < cap

\* 1.0 - options.success_probability_
ProbMissing(opt) ==
  <<opt.success_probability_[2] - opt.success_probability_[1],
    opt.success_probability_[2]>>

\* ------------------------------------------------------------------- Init
\* RansacOptions() / LORansacOptions() with small values in place of the
\* defaults (100, 10000, 0.9999, 1.0, 10, sqrt 2, 4, 7, 3).
BaseOptions ==
  [min_num_iterations_ |-> 1,
   max_num_iterations_ |-> 1,
   success_probability_ |-> <<1, 2>>,
   squared_inlier_threshold_ |-> 1,
   threshold_multiplier_ |-> 1,
   num_lo_steps_ |-> 0,
   num_lsq_iterations_ |-> 2,
   min_sample_multiplicator_ |-> 1,
   non_min_sample_multiplier_ |-> 3]

\* Calls that vary the iteration budget and the data size.
DriverOptions ==
  {[BaseOptions EXCEPT !.min_num_iterations_ = a, !.max_num_iterations_ = b] :
     a \in 1..2, b \in 1..MaxIters}

DriverSolvers ==
  [num_data : 0..MaxData, min_sample_size : 0..2, non_minimal_sample_size : {2}]

\* Calls that vary the local optimization: a relaxed threshold twice the
\* inlier threshold, one or two LO steps, two or three annealing passes.
LoOptions ==
  {[BaseOptions EXCEPT !.threshold_multiplier_ = 2, !.num_lo_steps_ = k,
                       !.num_lsq_iterations_ = n] :
     k \in 1..2, n \in 2..3}

LoSolvers ==
  [num_data : {2}, min_sample_size : {1}, non_minimal_sample_size : 1..3]

\* Calls in which residuals below the inlier threshold differ in size, so
\* that the MSAC score is not just a count of outliers.
MsacOptions ==
  {[BaseOptions EXCEPT !.max_num_iterations_ = 2, !.squared_inlier_threshold_ = 2]}

MsacSolvers ==
  [num_data : {2}, min_sample_size : {1}, non_minimal_sample_size : {2}]

Calls ==
  (DriverOptions \X DriverSolvers) \cup (LoOptions \X LoSolvers)
    \cup (MsacOptions \X MsacSolvers)

\* What the caller's Model object may hold before the call.
CallerModels(opt, sol) ==
  {DefaultModel(opt, sol), [p \in 0..(sol.num_data - 1) |-> 0]}

\* What the caller's RansacStatistics may hold before the call.
StaleStatistics ==
  {[num_iterations |-> 0, best_num_inliers |-> 0, best_model_score |-> 0,
    inlier_ratio |-> <<0, 1>>, inlier_indices |-> <<>>],
   [num_iterations |-> 7, best_num_inliers |-> 5, best_model_score |-> 3,
    inlier_ratio |-> <<1, 1>>, inlier_indices |-> <<0, 0>>]}

LoLocalsInit ==
  /\ refined_model = DefaultModel(options, solver)
  /\ score_refined_model = DBL_MAX
  /\ inliers_base = <<>>
  /\ kNonMinSampleSize = 0
  /\ sample = <<>>
  /\ m_non_min = DefaultModel(options, solver)
  /\ thresh = <<0, 1>>
  /\ r = 0
  /\ i = 0
  /\ lo_min_score = DBL_MAX
  /\ lsq_log = <<>>

\* LocalOptimization's locals go out of scope when it has returned.
LoLocalsReset ==
  /\ refined_model' = DefaultModel(options, solver)
  /\ score_refined_model' = DBL_MAX
  /\ inliers_base' = <<>>
  /\ kNonMinSampleSize' = 0
  /\ sample' = <<>>
  /\ m_non_min' = DefaultModel(options, solver)
  /\ thresh' = <<0, 1>>
  /\ r' = 0
  /\ i' = 0
  /\ lo_min_score' = DBL_MAX
  /\ lsq_log' = <<>>

Init ==
  /\ pc = "entry"
  /\ \E call \in Calls : options = call[1] /\ solver = call[2]
  /\ best_model \in CallerModels(options, solver)
  /\ stats \in StaleStatistics
  /\ ret = -1
  /\ max_num_iterations = 0
  /\ best_minimal_model = DefaultModel(options, solver)
  /\ best_min_model_score = DBL_MAX
  /\ LoLocalsInit
  /\ called = {}
  /\ writes = 0
  /\ last_recompute = -1

\* ----------------------------------------------------- EstimateModel
\* lines 142-165: ResetStatistics, the sanity check, the initialisation.
Enter ==
  /\ pc = "entry"
  /\ stats' = ResetStatistics(stats)
  /\ IF SanityCheckFails(solver)
     THEN /\ ret' = 0
          /\ pc' = "done"
          /\ UNCHANGED <<max_num_iterations, best_minimal_model, best_min_model_score>>
     ELSE /\ max_num_iterations' = InitialMaxIterations(options)
          /\ best_minimal_model' = DefaultModel(options, solver)
          /\ best_min_model_score' = DBL_MAX
          /\ pc' = "loop"
          /\ UNCHANGED ret
  /\ UNCHANGED <<options, solver, best_model, called, writes, last_recompute>>
  /\ UNCHANGED lo_vars

Iterating == pc = "loop" /\ LoopContinues(stats, max_num_iterations)

\* lines 170-175: MinimalSolver returns no model; continue.
IterDegenerate ==
  /\ Iterating
  /\ \E models \in MinimalSolver(options, solver) :
       /\ Len(models) <= 0
       /\ stats' = [stats EXCEPT !.num_iterations = @ + 1]
       /\ called' = called \cup {"MinimalSolver"}
  /\ UNCHANGED <<pc, options, solver, best_model, ret, max_num_iterations,
                 best_minimal_model, best_min_model_score, writes, last_recompute>>
  /\ UNCHANGED lo_vars

\* lines 170-184: the best candidate does not beat best_min_model_score.
IterNoImprovement ==
  /\ Iterating
  /\ \E models \in MinimalSolver(options, solver) :
       /\ Len(models) > 0
       /\ LET best == GetBestEstimatedModelId(solver, models,
                                              options.squared_inlier_threshold_)
          IN ~(best.score < best_min_model_score)
       /\ stats' = [stats EXCEPT !.num_iterations = @ + 1]
       /\ called' = called \cup {"MinimalSolver", "EvaluateModelOnPoint"}
  /\ UNCHANGED <<pc, options, solver, best_model, ret, max_num_iterations,
                 best_minimal_model, best_min_model_score, writes, last_recompute>>
  /\ UNCHANGED lo_vars

\* lines 170-198: a new best minimal model; LocalOptimization is called.
IterImprovement ==
  /\ Iterating
  /\ \E models \in MinimalSolver(options, solver) :
       /\ Len(models) > 0
       /\ LET best == GetBestEstimatedModelId(solver, models,
                                              options.squared_inlier_threshold_)
          IN /\ best.score < best_min_model_score
             /\ best_min_model_score' = best.score
             /\ best_minimal_model' = models[best.id + 1]
       /\ called' = called \cup {"MinimalSolver", "EvaluateModelOnPoint",
                                 "LocalOptimization"}
  /\ pc' = "lo_enter"
  /\ UNCHANGED <<options, solver, best_model, stats, ret, max_num_iterations,
                 writes, last_recompute>>
  /\ UNCHANGED lo_vars

\* ------------------------------------------------- LocalOptimization
\* lines 289-298: the input is the first candidate; too few data points.
LOEarlyReturn ==
  /\ pc = "lo_enter"
  /\ solver.non_minimal_sample_size > solver.num_data
  /\ score_refined_model' = best_min_model_score
  /\ refined_model' = best_minimal_model
  /\ lo_min_score' = best_min_model_score
  /\ pc' = "lo_return"
  /\ UNCHANGED <<options, solver, best_model, stats, ret, max_num_iterations,
                 best_minimal_model, best_min_model_score, called, writes,
                 last_recompute>>
  /\ UNCHANGED <<inliers_base, kNonMinSampleSize, sample, m_non_min, thresh, r,
                 i, lsq_log>>

\* lines 289-323: the initial least squares fit and the base inliers.
LOInit ==
  /\ pc = "lo_enter"
  /\ ~(solver.non_minimal_sample_size > solver.num_data)
  /\ \E m_init \in LeastSquaresFit(options, RelaxedThreshold(options), solver,
                                   best_minimal_model) :
       LET score == ScoreModel(solver, m_init, options.squared_inlier_threshold_)
           upd == UpdateBestModel(score, m_init, best_min_model_score,
                                  best_minimal_model)
           base == GetInliers(solver, m_init,
                              RatOfInt(options.squared_inlier_threshold_))
       IN /\ score_refined_model' = upd.score
          /\ refined_model' = upd.model
          /\ lo_min_score' = Min(best_min_model_score, score)
          /\ inliers_base' = base
          /\ kNonMinSampleSize' = NonMinSampleSize(options, solver, base)
  /\ r' = 0
  /\ pc' = "lo_step"
  /\ called' = called \cup {"LeastSquares"}
  /\ UNCHANGED <<options, solver, best_model, stats, ret, max_num_iterations,
                 best_minimal_model, best_min_model_score, writes, last_recompute>>
  /\ UNCHANGED <<sample, m_non_min, thresh, i, lsq_log>>

InLoStep == pc = "lo_step" /\ r < options.num_lo_steps_

\* lines 328-332: NonMinimalSolver fails; continue.
LOStepFail ==
  /\ InLoStep
  /\ \E smp \in RandomShuffleAndResize(kNonMinSampleSize, inliers_base) :
       \E res \in NonMinimalSolver(options, solver, smp) :
         /\ ~res.ok
         /\ sample' = smp
         /\ m_non_min' = res.model
  /\ lsq_log' = <<>>
  /\ r' = r + 1
  /\ called' = called \cup {"NonMinimalSolver"}
  /\ UNCHANGED <<pc, options, solver, best_model, stats, ret, max_num_iterations,
                 best_minimal_model, best_min_model_score, writes, last_recompute>>
  /\ UNCHANGED <<refined_model, score_refined_model, inliers_base,
                 kNonMinSampleSize, thresh, i, lo_min_score>>

\* lines 328-343: NonMinimalSolver succeeds; its model is scored, then
\* fitted once under kSqInThresh, and the annealing starts.
LOStepNonMin ==
  /\ InLoStep
  /\ \E smp \in RandomShuffleAndResize(kNonMinSampleSize, inliers_base) :
       \E res \in NonMinimalSolver(options, solver, smp) :
         /\ res.ok
         /\ sample' = smp
         /\ LET score == ScoreModel(solver, res.model,
                                    options.squared_inlier_threshold_)
                upd == UpdateBestModel(score, res.model, score_refined_model,
                                       refined_model)
            IN /\ score_refined_model' = upd.score
               /\ refined_model' = upd.model
               /\ lo_min_score' = Min(lo_min_score, score)
         /\ \E fitted \in LeastSquaresFit(options,
                                          RatOfInt(options.squared_inlier_threshold_),
                                          solver, res.model) :
              m_non_min' = fitted
  /\ lsq_log' = <<[thresh |-> RatOfInt(options.squared_inlier_threshold_),
                   scored |-> FALSE]>>
  /\ thresh' = RelaxedThreshold(options)
  /\ i' = 0
  /\ pc' = "lo_irls"
  /\ called' = called \cup {"NonMinimalSolver", "LeastSquares"}
  /\ UNCHANGED <<options, solver, best_model, stats, ret, max_num_iterations,
                 best_minimal_model, best_min_model_score, writes, last_recompute>>
  /\ UNCHANGED <<inliers_base, kNonMinSampleSize, r>>

\* lines 344-350: one pass of the iterative least squares refinement.
LOIrlsFit ==
  /\ pc = "lo_irls"
  /\ i < options.num_lsq_iterations_
  /\ \E fitted \in LeastSquaresFit(options, thresh, solver, m_non_min) :
       LET score == ScoreModel(solver, fitted, options.squared_inlier_threshold_)
           upd == UpdateBestModel(score, fitted, score_refined_model, refined_model)
       IN /\ m_non_min' = fitted
          /\ score_refined_model' = upd.score
          /\ refined_model' = upd.model
          /\ lo_min_score' = Min(lo_min_score, score)
  /\ lsq_log' = Append(lsq_log, [thresh |-> thresh, scored |-> TRUE])
  /\ thresh' = RatSub(thresh, ThreshMultUpdate(options))
  /\ i' = i + 1
  /\ UNCHANGED <<pc, options, solver, best_model, stats, ret, max_num_iterations,
                 best_minimal_model, best_min_model_score, called, writes,
                 last_recompute>>
  /\ UNCHANGED <<inliers_base, kNonMinSampleSize, sample, r>>

\* line 344 false, line 327 ++r: the LO step ends.
LOIrlsDone ==
  /\ pc = "lo_irls"
  /\ ~(i < options.num_lsq_iterations_)
  /\ r' = r + 1
  /\ pc' = "lo_step"
  /\ UNCHANGED <<options, solver, best_model, stats, ret, max_num_iterations,
                 best_minimal_model, best_min_model_score, called, writes,
                 last_recompute>>
  /\ UNCHANGED <<refined_model, score_refined_model, inliers_base,
                 kNonMinSampleSize, sample, m_non_min, thresh, i, lo_min_score,
                 lsq_log>>

\* line 327 false: LocalOptimization returns.
LOReturn ==
  /\ pc = "lo_step"
  /\ ~(r < options.num_lo_steps_)
  /\ pc' = "lo_return"
  /\ UNCHANGED <<options, solver, best_model, stats, ret, max_num_iterations,
                 best_minimal_model, best_min_model_score, called, writes,
                 last_recompute>>
  /\ UNCHANGED lo_vars

\* lines 200-215 and the ++stats.num_iterations of line 169.
AfterLO ==
  /\ pc = "lo_return"
  /\ LET upd == UpdateBestModel(score_refined_model, best_minimal_model,
                                stats.best_model_score, best_model)
         inl == GetInliers(solver, upd.model,
                           RatOfInt(options.squared_inlier_threshold_))
         ratio == <<Len(inl), solver.num_data>>
     IN /\ best_model' = upd.model
        /\ writes' = IF upd.wrote THEN writes + 1 ELSE writes
        /\ stats' = [num_iterations |-> stats.num_iterations + 1,
                     best_num_inliers |-> Len(inl),
                     best_model_score |-> upd.score,
                     inlier_ratio |-> ratio,
                     inlier_indices |-> inl]
        /\ max_num_iterations' =
             NumRequiredIterations(ratio, ProbMissing(options),
                                   solver.min_sample_size,
                                   options.min_num_iterations_,
                                   options.max_num_iterations_)
  /\ last_recompute' = stats.num_iterations
  /\ called' = called \cup {"EvaluateModelOnPoint"}
  /\ pc' = "loop"
  /\ LoLocalsReset
  /\ UNCHANGED <<options, solver, ret, best_minimal_model, best_min_model_score>>

\* line 168 false, line 218: return stats.best_num_inliers.
Return ==
  /\ pc = "loop"
  /\ ~LoopContinues(stats, max_num_iterations)
  /\ ret' = stats.best_num_inliers
  /\ pc' = "done"
  /\ UNCHANGED <<options, solver, best_model, stats, max_num_iterations,
                 best_minimal_model, best_min_model_score, called, writes,
                 last_recompute>>
  /\ UNCHANGED lo_vars

Next ==
  \/ Enter
  \/ IterDegenerate
  \/ IterNoImprovement
  \/ IterImprovement
  \/ LOEarlyReturn
  \/ LOInit
  \/ LOStepFail
  \/ LOStepNonMin
  \/ LOIrlsFit
  \/ LOIrlsDone
  \/ LOReturn
  \/ AfterLO
  \/ Return

Spec == Init /\ [][Next]_vars

\* ------------------------------------------------------------- properties
Returned == pc = "done"

\* the sanity check of lines 147-151 passed: the sampling loop has run
LoopRan == solver.min_sample_size >= 1 /\ solver.min_sample_size <= solver.num_data

Range(q) == {q[k] : k \in 1..Len(q)}

Ascending(q) == \A a, b \in 1..Len(q) : a < b => q[a] < q[b]

\* C1: on every return where a model was stored, statistics.best_model_score
\* is the MSAC score of the returned best_model (the refined model M_ref is
\* what the driver stores together with its score S_ref).
C1_ScoreOfReturnedModel ==
  (Returned /\ writes > 0) =>
    stats.best_model_score =
      ScoreModel(solver, best_model, options.squared_inlier_threshold_)

\* C2: on return, inlier_indices is the ascending duplicate-free list of the
\* points whose residual under the returned best_model is below the inlier
\* threshold (empty if no model was stored), its length is best_num_inliers,
\* which is the return value and lies in [0, N], and inlier_ratio is
\* best_num_inliers / N.
C2_InlierCoherence ==
  Returned =>
    /\ Ascending(stats.inlier_indices)
    /\ Range(stats.inlier_indices) =
         IF writes > 0
         THEN {p \in 0..(solver.num_data - 1) :
                 EvaluateModelOnPoint(best_model, p) < options.squared_inlier_threshold_}
         ELSE {}
    /\ Len(stats.inlier_indices) = stats.best_num_inliers
    /\ ret = stats.best_num_inliers
    /\ stats.best_num_inliers >= 0
    /\ stats.best_num_inliers <= solver.num_data
    /\ stats.inlier_ratio[2] > 0
    /\ stats.inlier_ratio[1] * solver.num_data
         = stats.best_num_inliers * stats.inlier_ratio[2]

C2_Witness ==
  /\ Returned
  /\ writes > 0
  /\ stats.best_num_inliers > 0
  /\ stats.best_num_inliers < solver.num_data

\* C3: with 1 <= min_sample_size <= N and min_iters <= max_iters, the cap T
\* stays within [min_iters, max_iters] throughout the run and the reported
\* num_iterations on return lies in [min_iters, max_iters].
C3_IterationBounds ==
  (LoopRan /\ options.min_num_iterations_ <= options.max_num_iterations_
     /\ pc # "entry") =>
    /\ options.min_num_iterations_ <= max_num_iterations
    /\ max_num_iterations <= options.max_num_iterations_
    /\ Returned => /\ options.min_num_iterations_ <= stats.num_iterations
                   /\ stats.num_iterations <= options.max_num_iterations_

C3_Witness ==
  /\ Returned
  /\ LoopRan
  /\ last_recompute >= 0
  /\ options.min_num_iterations_ < stats.num_iterations
  /\ stats.num_iterations < options.max_num_iterations_

\* C4 as stated: on every return after the sampling loop has run,
\* num_iterations equals the final value of the cap T (stated here for
\* options with min_iters <= max_iters only, where it already fails).
C4_IterationsEqualCap ==
  (Returned /\ LoopRan
     /\ options.min_num_iterations_ <= options.max_num_iterations_) =>
    stats.num_iterations = max_num_iterations

\* C4 as amended: the loop runs while t < T, so on return num_iterations is
\* the final T, unless T was last recomputed at an iteration t that is
\* already at or beyond the new T, and then num_iterations is t + 1.
C4_IterationsReachCap ==
  (Returned /\ LoopRan) =>
    stats.num_iterations = Max(max_num_iterations, last_recompute + 1)

C4_Witness ==
  /\ Returned
  /\ LoopRan
  /\ last_recompute >= 0
  /\ last_recompute + 1 < stats.num_iterations
  /\ stats.num_iterations = max_num_iterations
  /\ max_num_iterations < options.max_num_iterations_

\* C5: after the statistics are reset, best_model_score never increases, and
\* every assignment to the output model comes with a strictly lower
\* best_model_score (a tie keeps the incumbent).
C5_MonotoneScore ==
  [][pc # "entry" =>
       /\ stats'.best_model_score <= stats.best_model_score
       /\ (writes' # writes \/ best_model' # best_model)
            => stats'.best_model_score < stats.best_model_score]_vars

C5_Witness == writes >= 2 /\ Returned

\* C6: if min_sample_size > num_data or min_sample_size <= 0, the call
\* returns 0, calls nothing of the solver, leaves *best_model unwritten and
\* leaves zeroed statistics, whatever they held before.
C6_InsufficientDataNoOp ==
  (Returned /\ (solver.min_sample_size > solver.num_data
                  \/ solver.min_sample_size <= 0)) =>
    /\ ret = 0
    /\ called = {}
    /\ writes = 0
    /\ stats.num_iterations = 0
    /\ stats.best_num_inliers = 0
    /\ stats.inlier_ratio = <<0, 1>>
    /\ stats.inlier_indices = <<>>

C6_Witness ==
  /\ Returned
  /\ solver.min_sample_size > solver.num_data
  /\ solver.min_sample_size > 0
  /\ ret = 0

\* MinimalSolver returned no model for every sample: nothing was ever scored.
AlwaysDegenerate == called \subseteq {"MinimalSolver"}

DegenerateOutcome(iterations) ==
  /\ ret = 0
  /\ stats.num_iterations = iterations
  /\ stats.best_num_inliers = 0
  /\ stats.inlier_indices = <<>>
  /\ stats.best_model_score = DBL_MAX
  /\ "LocalOptimization" \notin called
  /\ writes = 0

\* C7 as stated: if MinimalSolver returns 0 for every sample, the call
\* returns 0 with num_iterations = max_iters, no inliers, the score at its
\* sentinel, no LocalOptimization and no model assigned.
C7_DegenerateRunsMaxIters ==
  (Returned /\ LoopRan /\ AlwaysDegenerate) =>
    DegenerateOutcome(options.max_num_iterations_)

\* C7 as amended: the same, with num_iterations = max(max_iters, min_iters),
\* which is max_iters whenever min_iters <= max_iters.
C7_DegenerateRunsInitialCap ==
  (Returned /\ LoopRan /\ AlwaysDegenerate) =>
    DegenerateOutcome(Max(options.max_num_iterations_, options.min_num_iterations_))

C7_Witness ==
  /\ Returned
  /\ LoopRan
  /\ called = {"MinimalSolver"}
  /\ stats.num_iterations >= 2

\* C8: when LocalOptimization returns, the refined score is at most the
\* input minimal model's score, it is the lowest score of the input and of
\* all models scored in the invocation, it is the score of the refined
\* model, and on a tie with the input the input model is the one returned.
C8_LoNoRegression ==
  pc = "lo_return" =>
    /\ score_refined_model <= best_min_model_score
    /\ score_refined_model = lo_min_score
    /\ score_refined_model =
         ScoreModel(solver, refined_model, options.squared_inlier_threshold_)
    /\ score_refined_model = best_min_model_score
         => refined_model = best_minimal_model

C8_Witness ==
  /\ pc = "lo_return"
  /\ lsq_log # <<>>
  /\ score_refined_model < best_min_model_score
  /\ ScoreModel(solver, m_non_min, options.squared_inlier_threshold_)
       > score_refined_model

\* An LO step in which NonMinimalSolver succeeded has run to its end.
LoStepDone == pc \in {"lo_step", "lo_return"} /\ lsq_log # <<>>

\* theta_j = m tau^2 - j (m - 1) tau^2 / (num_lsq_iterations - 1)
Theta(j) ==
  <<options.threshold_multiplier_ * options.squared_inlier_threshold_
        * (options.num_lsq_iterations_ - 1)
      - j * (options.threshold_multiplier_ - 1) * options.squared_inlier_threshold_,
    options.num_lsq_iterations_ - 1>>

\* C9 as stated: in an LO step where NonMinimalSolver succeeds, exactly
\* num_lsq_iterations least squares fits are made on the non-minimal model,
\* the j-th with threshold theta_j and each followed by scoring, and no
\* other fit is made on that model.
C9_ExactlyNumLsqFits ==
  LoStepDone =>
    /\ Len(lsq_log) = options.num_lsq_iterations_
    /\ \A j \in 0..(options.num_lsq_iterations_ - 1) :
         /\ RatEq(lsq_log[j + 1].thresh, Theta(j))
         /\ lsq_log[j + 1].scored

\* C9 as amended: the step makes num_lsq_iterations + 1 fits on the
\* non-minimal model: first one under tau^2 that is not followed by scoring,
\* then the num_lsq_iterations annealing fits, the j-th with threshold
\* theta_j (m tau^2 first, tau^2 last), each followed by scoring.
C9_AnnealingAfterInitialFit ==
  LoStepDone =>
    /\ Len(lsq_log) = options.num_lsq_iterations_ + 1
    /\ RatEq(lsq_log[1].thresh, RatOfInt(options.squared_inlier_threshold_))
    /\ ~lsq_log[1].scored
    /\ \A j \in 0..(options.num_lsq_iterations_ - 1) :
         /\ RatEq(lsq_log[j + 2].thresh, Theta(j))
         /\ lsq_log[j + 2].scored
    /\ RatEq(lsq_log[Len(lsq_log)].thresh,
             RatOfInt(options.squared_inlier_threshold_))

C9_Witness ==
  /\ LoStepDone
  /\ options.num_lsq_iterations_ = 3
  /\ options.threshold_multiplier_ = 2

\* NonMinimalSolver has been called in this LocalOptimization; sample holds
\* the vector handed to the latest call.
NonMinimalSolverCalled ==
  pc = "lo_irls" \/ (pc \in {"lo_step", "lo_return"} /\ r > 0)

\* C10: the vector handed to NonMinimalSolver has exactly k_nm pairwise
\* distinct elements, all of them members of I_base, and k_nm <= |I_base|.
C10_SampleWithinBase ==
  NonMinimalSolverCalled =>
    /\ kNonMinSampleSize =
         Max(solver.non_minimal_sample_size,
             Min(solver.non_minimal_sample_size * options.non_min_sample_multiplier_,
                 Len(inliers_base) \div 2))
    /\ Len(sample) = kNonMinSampleSize
    /\ \A a, b \in 1..Len(sample) : a # b => sample[a] # sample[b]
    /\ Range(sample) \subseteq Range(inliers_base)
    /\ kNonMinSampleSize <= Len(inliers_base)

====
